---- MODULE Spec2Model ----
(***************************************************************************)
(* A model of tslox, a tree-walking interpreter for Lox written in        *)
(* TypeScript: the Scanner (src/src/scanner.ts), the Parser               *)
(* (src/unnamed/part_001), the Environment (src/src/environment.ts), the  *)
(* Interpreter (src/unnamed/part_002) and the driver Lox                  *)
(* (src/src/main.ts, second revision, lines 80-177).                      *)
(*                                                                         *)
(* A source text is a sequence of one-character strings.  Objects are     *)
(* records that keep the field names of the classes.                      *)
(***************************************************************************)
EXTENDS Integers, Sequences, FiniteSets, TLC

VARIABLES
    pc,               \* where the control of the program is
    mode,             \* "file" or "repl" (Lox.main), or the component under test
    linesRead,        \* number of 'line' events the REPL has handled
    scanner,          \* the Scanner object: source, tokens, start, current, line
    parser,           \* the Parser object: tokens, current
    statements,       \* const statements of Lox.run / of Parser.parse
    heap,             \* the Environment objects that were allocated
    environment,      \* Interpreter.environment, a reference into heap
    frames,           \* the active interpret / visitBlockStmt calls
    thrown,           \* the exception that is propagating, or NoError
    hadError,         \* Lox.hadError
    hadRuntimeError,  \* Lox.hadRuntimeError
    stdout,           \* what console.log wrote
    stderr,           \* what console.error wrote
    exitCode,         \* the exit code of the process, or Running
    lastDefined,      \* history: per environment, the value last passed to define
    blockEntry        \* history: per active block, the state when it was entered

vars == <<pc, mode, linesRead, scanner, parser, statements, heap, environment,
          frames, thrown, hadError, hadRuntimeError, stdout, stderr, exitCode,
          lastDefined, blockEntry>>

\* the state of the driver, of the interpreter and of the history variables
driverVars == <<mode, linesRead, exitCode>>

interpreterVars == <<heap, environment, frames, lastDefined, blockEntry>>

(***************************************************************************)
(* Bounds of the model.                                                    *)
(***************************************************************************)
MaxSrcLen == 3        \* longest source text given to the Scanner alone
MaxTokens == 4        \* most tokens before EOF given to the Parser alone
MaxNodes == 4         \* most statements of a program given to the Interpreter
MaxLineLen == 4       \* longest source text given to the driver
MaxLines == 2         \* most lines typed at the REPL
MaxExprLen == 5        \* most tokens of an expression given to the Parser
MaxDepth == 1          \* most binary operators nested in an expression evaluated

(***************************************************************************)
(* LoxValue = number | string | boolean | null  (src/src/expr.ts:12).      *)
(* Every value is a record of the same shape; a number is the fraction     *)
(* num/den in lowest terms.                                                *)
(***************************************************************************)
NilValue == [kind |-> "nil", num |-> 0, den |-> 1, str |-> <<>>, bool |-> FALSE]

NumberValue(n, d) == [kind |-> "number", num |-> n, den |-> d, str |-> <<>>, bool |-> FALSE]

StringValue(s) == [kind |-> "string", num |-> 0, den |-> 1, str |-> s, bool |-> FALSE]

BooleanValue(b) == [kind |-> "boolean", num |-> 0, den |-> 1, str |-> <<>>, bool |-> b]

RECURSIVE Gcd(_, _)
Gcd(a, b) == IF b = 0 THEN a ELSE Gcd(b, a % b)

Abs(n) == IF n < 0 THEN -n ELSE n

\* the number n/d (d > 0) in lowest terms
Fraction(n, d) ==
    LET g == Gcd(Abs(n), d)
    IN  NumberValue(n \div g, d \div g)

(***************************************************************************)
(* Token (kind, lexeme, literal, line).                                    *)
(***************************************************************************)
Token(type, lexeme, literal, line) ==
    [type |-> type, lexeme |-> lexeme, literal |-> literal, line |-> line]

NoError == [name |-> "none"]

\* what Lox.report writes: `[line ${line}] Error ${where}: ${message}`
ReportLine(line, where, message) ==
    [channel |-> "report", line |-> line, where |-> where, message |-> message]

(***************************************************************************)
(* Scanner  (src/src/scanner.ts)                                           *)
(***************************************************************************)
Digits == {"0", "1", "2", "3", "4", "5", "6", "7", "8", "9"}

DigitValue(c) ==
    CASE c = "0" -> 0 [] c = "1" -> 1 [] c = "2" -> 2 [] c = "3" -> 3
      [] c = "4" -> 4 [] c = "5" -> 5 [] c = "6" -> 6 [] c = "7" -> 7
      [] c = "8" -> 8 [] c = "9" -> 9

\* "\0", the character peek() and peekNext() return at the end of the source
NUL == "NUL"

NewScanner(source) ==
    [source |-> source, tokens |-> <<>>, start |-> 0, current |-> 0, line |-> 1]

\* String.prototype.charAt: the empty string outside the text
charAt(source, i) == IF i >= 0 /\ i < Len(source) THEN source[i + 1] ELSE ""

\* String.prototype.substring(from, to)
substring(source, from, to) == SubSeq(source, from + 1, to)

Scanner_isAtEnd(s) == s.current >= Len(s.source)

Scanner_advance(s) == [s EXCEPT !.current = @ + 1]

Scanner_peek(s) == IF Scanner_isAtEnd(s) THEN NUL ELSE charAt(s.source, s.current)

peekNext(s) ==
    IF s.current + 1 >= Len(s.source) THEN NUL ELSE charAt(s.source, s.current + 1)

isDigit(c) == c \in Digits

addToken(s, type, literal) ==
    [s EXCEPT !.tokens = Append(@, Token(type, substring(s.source, s.start, s.current),
                                         literal, s.line))]

\* match(expected): <<matched, scanner afterwards>>
Scanner_match(s, expected) ==
    IF Scanner_isAtEnd(s) THEN <<FALSE, s>>
    ELSE IF charAt(s.source, s.current) # expected THEN <<FALSE, s>>
    ELSE <<TRUE, Scanner_advance(s)>>

\* addToken(this.match('=') ? two : one)
addOneOrTwo(s, one, two) ==
    LET m == Scanner_match(s, "=")
    IN  addToken(m[2], IF m[1] THEN two ELSE one, NilValue)

\* while (this.peek() !== '\n' && !this.isAtEnd()) this.advance();
RECURSIVE skipComment(_)
skipComment(s) ==
    IF Scanner_peek(s) # "\n" /\ ~Scanner_isAtEnd(s)
    THEN skipComment(Scanner_advance(s))
    ELSE s

\* the loop of string(): counts the newlines inside the literal
RECURSIVE stringBody(_)
stringBody(s) ==
    IF Scanner_peek(s) # "\"" /\ ~Scanner_isAtEnd(s)
    THEN stringBody(Scanner_advance(
             IF Scanner_peek(s) = "\n" THEN [s EXCEPT !.line = @ + 1] ELSE s))
    ELSE s

\* string(): <<scanner afterwards, the errors reported>>
string(s) ==
    LET b == stringBody(s)
    IN  IF Scanner_isAtEnd(b)
        THEN <<b, <<ReportLine(b.line, "", "Unterminated string.")>> >>
        ELSE LET c == Scanner_advance(b)
             IN  <<addToken(c, "STRING",
                            StringValue(substring(c.source, c.start + 1, c.current - 1))),
                   <<>> >>

\* while (this.isDigit(this.peek())) this.advance();
RECURSIVE digits(_)
digits(s) == IF isDigit(Scanner_peek(s)) THEN digits(Scanner_advance(s)) ELSE s

\* the value of a digit string, read as a natural number
RECURSIVE DecimalValue(_)
DecimalValue(text) ==
    IF Len(text) = 0 THEN 0
    ELSE 10 * DecimalValue(SubSeq(text, 1, Len(text) - 1)) + DigitValue(text[Len(text)])

RECURSIVE Pow10(_)
Pow10(n) == IF n = 0 THEN 1 ELSE 10 * Pow10(n - 1)

\* Number.parseFloat of a lexeme  digit+ ( "." digit+ )?
parseFloat(text) ==
    LET dots == {i \in 1..Len(text) : text[i] = "."}
    IN  IF dots = {} THEN Fraction(DecimalValue(text), 1)
        ELSE LET d == CHOOSE i \in dots : TRUE
                 whole == SubSeq(text, 1, d - 1)
                 frac == SubSeq(text, d + 1, Len(text))
             IN  Fraction(DecimalValue(whole \o frac), Pow10(Len(frac)))

number(s) ==
    LET a == digits(s)
        b == IF Scanner_peek(a) = "." /\ isDigit(peekNext(a))
             THEN digits(Scanner_advance(a))
             ELSE a
    IN  addToken(b, "NUMBER", parseFloat(substring(b.source, b.start, b.current)))

SingleCharTokens ==
    [c \in {"(", ")", "{", "}", ",", ".", "-", "+", ";", "*"} |->
        CASE c = "(" -> "LEFT_PAREN" [] c = ")" -> "RIGHT_PAREN"
          [] c = "{" -> "LEFT_BRACE" [] c = "}" -> "RIGHT_BRACE"
          [] c = "," -> "COMMA" [] c = "." -> "DOT" [] c = "-" -> "MINUS"
          [] c = "+" -> "PLUS" [] c = ";" -> "SEMICOLON" [] c = "*" -> "STAR"]

\* scanToken(): <<scanner afterwards, the errors reported through Lox.error>>
scanToken(s0) ==
    LET c == charAt(s0.source, s0.current)
        s == Scanner_advance(s0)
    IN  CASE c \in DOMAIN SingleCharTokens -> <<addToken(s, SingleCharTokens[c], NilValue), <<>> >>
          [] c = "!" -> <<addOneOrTwo(s, "BANG", "BANG_EQUAL"), <<>> >>
          [] c = "=" -> <<addOneOrTwo(s, "EQUAL", "EQUAL_EQUAL"), <<>> >>
          [] c = "<" -> <<addOneOrTwo(s, "LESS", "LESS_EQUAL"), <<>> >>
          [] c = ">" -> <<addOneOrTwo(s, "GREATER", "GREATER_EQUAL"), <<>> >>
          \* no break after this case: control falls into the case of ' ',
          \* whose body is only a break
          [] c = "/" -> LET m == Scanner_match(s, "/")
                        IN  IF m[1] THEN <<skipComment(m[2]), <<>> >>
                            ELSE <<addToken(s, "SLASH", NilValue), <<>> >>
          [] c \in {" ", "\r", "\t"} -> <<s, <<>> >>
          [] c = "\n" -> <<[s EXCEPT !.line = @ + 1], <<>> >>
          [] c = "\"" -> string(s)
          [] OTHER -> IF isDigit(c) THEN <<number(s), <<>> >>
                      ELSE <<s, <<ReportLine(s.line, "", "Unexpected character.")>> >>

\* an iteration of the loop of scanTokens() that leaves the loop, without an
\* EOF token, when scanToken() has reported an error
ScanTokenLeavingOnError ==
    /\ pc = "scan"
    /\ ~Scanner_isAtEnd(scanner)
    /\ scanner' = scanToken([scanner EXCEPT !.start = scanner.current])[1]
    /\ stderr' = stderr \o scanToken([scanner EXCEPT !.start = scanner.current])[2]
    /\ hadError' = (hadError \/ stderr' # stderr)
    /\ pc' = IF stderr' # stderr THEN "scanned" ELSE "scan"
    /\ UNCHANGED <<driverVars, parser, statements, interpreterVars,
                   thrown, hadRuntimeError, stdout>>

\* one iteration of the loop of scanTokens()
ScanToken ==
    /\ pc = "scan"
    /\ ~Scanner_isAtEnd(scanner)
    /\ LET r == scanToken([scanner EXCEPT !.start = scanner.current])
       IN  /\ scanner' = r[1]
           /\ stderr' = stderr \o r[2]
           /\ hadError' = (hadError \/ Len(r[2]) > 0)
    /\ UNCHANGED <<pc, driverVars, parser, statements, interpreterVars,
                   thrown, hadRuntimeError, stdout>>

\* scanTokens() returning the tokens without pushing EOF
ScanEOFNoToken ==
    /\ pc = "scan"
    /\ Scanner_isAtEnd(scanner)
    /\ pc' = "scanned"
    /\ UNCHANGED <<driverVars, scanner, parser, statements, interpreterVars,
                   thrown, hadError, hadRuntimeError, stdout, stderr>>

\* the end of scanTokens(): push EOF and return the tokens
ScanEOF ==
    /\ pc = "scan"
    /\ Scanner_isAtEnd(scanner)
    /\ scanner' = [scanner EXCEPT !.tokens = Append(@, Token("EOF", <<>>, NilValue, scanner.line))]
    /\ pc' = "scanned"
    /\ UNCHANGED <<driverVars, parser, statements, interpreterVars,
                   thrown, hadError, hadRuntimeError, stdout, stderr>>

\* scanTokens() as a whole: the scanner it leaves and the lines it reported
RECURSIVE scanTokens(_, _), scanTokensLoop(_, _)
scanTokens(s, errors) ==
    IF Scanner_isAtEnd(s)
    THEN <<[s EXCEPT !.tokens = Append(@, Token("EOF", <<>>, NilValue, s.line))], errors>>
    ELSE scanTokensLoop(scanToken([s EXCEPT !.start = s.current]), errors)

scanTokensLoop(r, errors) == scanTokens(r[1], errors \o r[2])

(***************************************************************************)
(* AST nodes  (src/src/expr.ts, src/src/stmt.ts)                           *)
(***************************************************************************)
Binary(left, operator, right) ==
    [node |-> "Binary", left |-> left, operator |-> operator, right |-> right]

Grouping(expression) == [node |-> "Grouping", expression |-> expression]

Literal(value) == [node |-> "Literal", value |-> value]

Unary(operator, right) == [node |-> "Unary", operator |-> operator, right |-> right]

VariableExpr(name) == [node |-> "VariableExpr", name |-> name]

AssignExpr(name, value) == [node |-> "AssignExpr", name |-> name, value |-> value]

\* initializer: Expr | null
NoExpr == [node |-> "null"]

ExpressionStmt(expression) == [node |-> "ExpressionStmt", expression |-> expression]

PrintStmt(expression) == [node |-> "PrintStmt", expression |-> expression]

VarStmt(name, initializer) ==
    [node |-> "VarStmt", name |-> name, initializer |-> initializer]

BlockStmt(stmts) == [node |-> "BlockStmt", statements |-> stmts]

(***************************************************************************)
(* Parser  (src/unnamed/part_001)                                          *)
(*                                                                         *)
(* A parsing method is an operator from the parser p (tokens, current) to  *)
(* a result: the node built and the parser afterwards, or the ParseError   *)
(* thrown and the parser at the throw.                                     *)
(***************************************************************************)
NewParser(tokens) == [tokens |-> tokens, current |-> 0]

\* tokens[i] of a JavaScript array: undefined outside it
Undefined == Token("undefined", <<>>, NilValue, 0)

tokenAt(tokens, i) == IF i >= 0 /\ i < Len(tokens) THEN tokens[i + 1] ELSE Undefined

Parser_peek(p) == tokenAt(p.tokens, p.current)

previous(p) == tokenAt(p.tokens, p.current - 1)

Parser_isAtEnd(p) == Parser_peek(p).type = "EOF"

Parser_advance(p) == IF ~Parser_isAtEnd(p) THEN [p EXCEPT !.current = @ + 1] ELSE p

check(p, type) == IF Parser_isAtEnd(p) THEN FALSE ELSE Parser_peek(p).type = type

\* match(...types): <<matched, parser afterwards>>
Parser_match(p, types) ==
    IF \E type \in types : check(p, type) THEN <<TRUE, Parser_advance(p)>> ELSE <<FALSE, p>>

Ok(node, p) == [ok |-> TRUE, node |-> node, error |-> NoError, p |-> p]

Throw(error, p) == [ok |-> FALSE, node |-> NoExpr, error |-> error, p |-> p]

\* error(token, message): builds the ParseError; nothing is reported
Parser_error(token, message) ==
    [name |-> "ParseError", line |-> token.line, lexeme |-> token.lexeme,
     message |-> message]

consume(p, type, message) ==
    IF check(p, type) THEN Ok(previous(Parser_advance(p)), Parser_advance(p))
    ELSE Throw(Parser_error(Parser_peek(p), message), p)

\* the rest of a method once the operand or token it asked for is there:
\* an error thrown below it goes up unchanged
makeUnary(operator, right) ==
    IF ~right.ok THEN right ELSE Ok(Unary(operator, right.node), right.p)

makeBinary(expr, operator, right) ==
    IF ~right.ok THEN right ELSE Ok(Binary(expr, operator, right.node), right.p)

makeGrouping(expr, paren) ==
    IF ~paren.ok THEN paren ELSE Ok(Grouping(expr), paren.p)

closeGrouping(expr) ==
    IF ~expr.ok THEN expr
    ELSE makeGrouping(expr.node,
                      consume(expr.p, "RIGHT_PAREN", "Expect ')' after expression."))

RECURSIVE expression(_), equality(_), equalityLoop(_), comparison(_),
          comparisonLoop(_), addition(_), additionLoop(_),
          multiplication(_), multiplicationLoop(_), unary(_), primary(_)

primary(p) ==
    IF check(p, "FALSE") THEN Ok(Literal(BooleanValue(FALSE)), Parser_advance(p))
    ELSE IF check(p, "TRUE") THEN Ok(Literal(BooleanValue(TRUE)), Parser_advance(p))
    ELSE IF check(p, "NIL") THEN Ok(Literal(NilValue), Parser_advance(p))
    ELSE IF check(p, "NUMBER") \/ check(p, "STRING")
         THEN Ok(Literal(previous(Parser_advance(p)).literal), Parser_advance(p))
    ELSE IF check(p, "IDENTIFIER")
         THEN Ok(VariableExpr(previous(Parser_advance(p))), Parser_advance(p))
    ELSE IF check(p, "LEFT_PAREN") THEN closeGrouping(expression(Parser_advance(p)))
    ELSE Throw(Parser_error(Parser_peek(p), "Expect expression."), p)

unary(p) ==
    IF Parser_match(p, {"BANG", "MINUS"})[1]
    THEN makeUnary(previous(Parser_advance(p)), unary(Parser_advance(p)))
    ELSE primary(p)

\* the while loops of the binary levels, expr being the result of the
\* operand parsed so far
multiplicationLoop(expr) ==
    IF ~expr.ok THEN expr
    ELSE IF ~Parser_match(expr.p, {"SLASH", "STAR"})[1] THEN expr
    ELSE multiplicationLoop(makeBinary(expr.node, previous(Parser_advance(expr.p)),
                                       unary(Parser_advance(expr.p))))

multiplication(p) == multiplicationLoop(unary(p))

\* a loop of addition() that parses all that follows the operator as its
\* right operand
additionLoopToTheRight(expr) ==
    IF ~expr.ok THEN expr
    ELSE IF ~Parser_match(expr.p, {"MINUS", "PLUS"})[1] THEN expr
    ELSE makeBinary(expr.node, previous(Parser_advance(expr.p)),
                    addition(Parser_advance(expr.p)))

additionLoop(expr) ==
    IF ~expr.ok THEN expr
    ELSE IF ~Parser_match(expr.p, {"MINUS", "PLUS"})[1] THEN expr
    ELSE additionLoop(makeBinary(expr.node, previous(Parser_advance(expr.p)),
                                 multiplication(Parser_advance(expr.p))))

addition(p) == additionLoop(multiplication(p))

comparisonLoop(expr) ==
    IF ~expr.ok THEN expr
    ELSE IF ~Parser_match(expr.p, {"GREATER", "GREATER_EQUAL", "LESS", "LESS_EQUAL"})[1]
    THEN expr
    ELSE comparisonLoop(makeBinary(expr.node, previous(Parser_advance(expr.p)),
                                   addition(Parser_advance(expr.p))))

comparison(p) == comparisonLoop(addition(p))

equalityLoop(expr) ==
    IF ~expr.ok THEN expr
    ELSE IF ~Parser_match(expr.p, {"BANG_EQUAL", "EQUAL_EQUAL"})[1] THEN expr
    ELSE equalityLoop(makeBinary(expr.node, previous(Parser_advance(expr.p)),
                                 comparison(Parser_advance(expr.p))))

equality(p) == equalityLoop(comparison(p))

expression(p) == equality(p)

makeExpressionStmt(expr, semicolon) ==
    IF ~semicolon.ok THEN semicolon ELSE Ok(ExpressionStmt(expr), semicolon.p)

endExpressionStatement(expr) ==
    IF ~expr.ok THEN expr
    ELSE makeExpressionStmt(expr.node,
                            consume(expr.p, "SEMICOLON", "Expect ';' after expression."))

expressionStatement(p) == endExpressionStatement(expression(p))

makePrintStmt(value, semicolon) ==
    IF ~semicolon.ok THEN semicolon ELSE Ok(PrintStmt(value), semicolon.p)

endPrintStatement(value) ==
    IF ~value.ok THEN value
    ELSE makePrintStmt(value.node,
                       consume(value.p, "SEMICOLON", "Expect ';' after value."))

printStatement(p) == endPrintStatement(expression(p))

statement(p) ==
    IF Parser_match(p, {"PRINT"})[1] THEN printStatement(Parser_advance(p))
    ELSE expressionStatement(p)

makeVarStmt(name, initializer, semicolon) ==
    IF ~semicolon.ok THEN semicolon ELSE Ok(VarStmt(name, initializer), semicolon.p)

endVarDeclaration(name, initializer) ==
    IF ~initializer.ok THEN initializer
    ELSE makeVarStmt(name, initializer.node,
                     consume(initializer.p, "SEMICOLON",
                             "Expect ';' after variable declaration."))

varInitializer(name) ==
    IF ~name.ok THEN name
    ELSE endVarDeclaration(name.node,
                           IF Parser_match(name.p, {"EQUAL"})[1]
                           THEN expression(Parser_advance(name.p))
                           ELSE Ok(NoExpr, name.p))

varDeclaration(p) == varInitializer(consume(p, "IDENTIFIER", "Expect variable name."))

declaration(p) ==
    IF Parser_match(p, {"VAR"})[1] THEN varDeclaration(Parser_advance(p))
    ELSE statement(p)

StatementStart == {"CLASS", "FUN", "VAR", "FOR", "IF", "WHILE", "PRINT", "RETURN"}

\* the loop of synchronize()
RECURSIVE synchronizeLoop(_)
synchronizeLoop(p) ==
    IF Parser_isAtEnd(p) THEN p
    ELSE IF previous(p).type = "SEMICOLON" THEN p
    ELSE IF Parser_peek(p).type \in StatementStart THEN p
    ELSE synchronizeLoop(Parser_advance(p))

\* a synchronize() that steps over the token of the error even when it is
\* the EOF token
synchronizeUnguarded(p) ==
    IF Parser_isAtEnd(p) THEN [p EXCEPT !.current = @ + 1]
    ELSE synchronizeLoop(Parser_advance(p))

synchronize(p) == synchronizeLoop(Parser_advance(p))

\* a loop body that synchronizes after a ParseError and goes on without
\* throwing it again or reporting it
parseLoopBodyGoingOn(r) ==
    /\ parser' = IF r.ok THEN r.p ELSE synchronize(r.p)
    /\ statements' = IF r.ok THEN Append(statements, r.node) ELSE statements
    /\ UNCHANGED <<thrown, pc>>

\* the body of the loop of parse(), r being what declaration() gave: push
\* the statement, or synchronize and throw the ParseError again
parseLoopBody(r) ==
    IF r.ok
    THEN /\ parser' = r.p
         /\ statements' = Append(statements, r.node)
         /\ UNCHANGED <<thrown, pc>>
    ELSE /\ parser' = synchronize(r.p)
         /\ thrown' = r.error
         /\ pc' = "parseThrown"
         /\ UNCHANGED statements

\* one iteration of the loop of parse()
ParseDeclaration ==
    /\ pc = "parse"
    /\ ~Parser_isAtEnd(parser)
    /\ parseLoopBody(declaration(parser))
    /\ UNCHANGED <<driverVars, scanner, interpreterVars,
                   hadError, hadRuntimeError, stdout, stderr>>

\* the end of parse(): return statements
ParseReturn ==
    /\ pc = "parse"
    /\ Parser_isAtEnd(parser)
    /\ pc' = "parsed"
    /\ UNCHANGED <<driverVars, scanner, parser, statements, interpreterVars,
                   thrown, hadError, hadRuntimeError, stdout, stderr>>

\* parse() as a whole: the statements it returns, or the ParseError it throws
RECURSIVE parse(_, _), parseLoop(_, _)
parse(p, stmts) ==
    IF Parser_isAtEnd(p)
    THEN [ok |-> TRUE, statements |-> stmts, error |-> NoError, p |-> p]
    ELSE parseLoop(declaration(p), stmts)

parseLoop(r, stmts) ==
    IF r.ok THEN parse(r.p, Append(stmts, r.node))
    ELSE [ok |-> FALSE, statements |-> stmts, error |-> r.error, p |-> synchronize(r.p)]

(***************************************************************************)
(* Environment  (src/src/environment.ts)                                   *)
(*                                                                         *)
(* The Environment objects live in heap, a sequence; a reference is an     *)
(* index into it and Null is the null reference.                           *)
(***************************************************************************)
Null == 0

\* new Map()
EmptyMap == [n \in {} |-> NilValue]

\* new Environment(enclosing)
NewEnvironment(enclosing) == [values |-> EmptyMap, enclosing |-> enclosing]

RuntimeError(token, message) ==
    [name |-> "RuntimeError", token |-> token, message |-> message]

\* `Undefined variable '${lexeme}'.`
UndefinedVariable(lexeme) == <<"Undefined variable '">> \o lexeme \o <<"'.">>

\* a define that writes into the enclosing environment when there is one
defineInEnclosing(h, env, name, value) ==
    IF h[env].enclosing # Null
    THEN [h EXCEPT ![h[env].enclosing].values = (name :> value) @@ @]
    ELSE [h EXCEPT ![env].values = (name :> value) @@ @]

\* a define that also overwrites the binding of the name in the enclosing
\* environment when that one binds it
defineAlsoInEnclosing(h, env, name, value) ==
    IF h[env].enclosing # Null /\ name \in DOMAIN h[h[env].enclosing].values
    THEN [h EXCEPT ![env].values = (name :> value) @@ @,
                   ![h[env].enclosing].values[name] = value]
    ELSE [h EXCEPT ![env].values = (name :> value) @@ @]

\* define(name, value) on the environment env: the heap afterwards
define(h, env, name, value) ==
    [h EXCEPT ![env].values = (name :> value) @@ @]

\* the get of the Environment without enclosing: this environment only
getWithoutEnclosing(h, env, nameToken) ==
    IF nameToken.lexeme \in DOMAIN h[env].values
    THEN [ok |-> TRUE, value |-> h[env].values[nameToken.lexeme], error |-> NoError]
    ELSE [ok |-> FALSE, value |-> NilValue,
          error |-> RuntimeError(nameToken, UndefinedVariable(nameToken.lexeme))]

\* get(nameToken) on the environment env: the value, or the error thrown
RECURSIVE get(_, _, _)
get(h, env, nameToken) ==
    LET lexeme == nameToken.lexeme
    IN  IF lexeme \in DOMAIN h[env].values
        THEN [ok |-> TRUE, value |-> h[env].values[lexeme], error |-> NoError]
        ELSE IF h[env].enclosing # Null
        THEN get(h, h[env].enclosing, nameToken)
        ELSE [ok |-> FALSE, value |-> NilValue,
              error |-> RuntimeError(nameToken, UndefinedVariable(lexeme))]

\* an assign that defines the name in the outermost environment when no
\* environment of the chain binds it
RECURSIVE assignOrDefine(_, _, _, _)
assignOrDefine(h, env, nameToken, value) ==
    IF nameToken.lexeme \in DOMAIN h[env].values
    THEN [ok |-> TRUE, heap |-> [h EXCEPT ![env].values[nameToken.lexeme] = value],
          error |-> NoError]
    ELSE IF h[env].enclosing # Null
    THEN assignOrDefine(h, h[env].enclosing, nameToken, value)
    ELSE [ok |-> TRUE, heap |-> [h EXCEPT ![env].values = (nameToken.lexeme :> value) @@ @],
          error |-> NoError]

\* assign(nameToken, value) on the environment env: the heap afterwards, or
\* the error thrown
RECURSIVE assign(_, _, _, _)
assign(h, env, nameToken, value) ==
    LET lexeme == nameToken.lexeme
    IN  IF lexeme \in DOMAIN h[env].values
        THEN [ok |-> TRUE, heap |-> [h EXCEPT ![env].values[lexeme] = value],
              error |-> NoError]
        ELSE IF h[env].enclosing # Null
        THEN assign(h, h[env].enclosing, nameToken, value)
        ELSE [ok |-> FALSE, heap |-> h,
              error |-> RuntimeError(nameToken, UndefinedVariable(lexeme))]

(***************************************************************************)
(* Interpreter  (src/unnamed/part_002)                                     *)
(***************************************************************************)
isTruthy(value) ==
    IF value = NilValue THEN FALSE
    ELSE IF value = BooleanValue(FALSE) THEN FALSE
    ELSE TRUE

\* checkNumberOperand(operator, operand): NoError, or the error thrown
checkNumberOperand(operator, operand) ==
    IF operand.kind = "number" THEN NoError
    ELSE RuntimeError(operator, <<"Operand must be a number.">>)

(***************************************************************************)
(* JavaScript numbers, as far as the model goes: the fractions, and the    *)
(* three values a division by zero gives, written n/0: 1/0 is Infinity,    *)
(* -1/0 is -Infinity and 0/0 is NaN.  Rounding and the sign of zero are    *)
(* not modelled.                                                           *)
(***************************************************************************)
Sign(n) == IF n > 0 THEN 1 ELSE IF n < 0 THEN -1 ELSE 0

NaN == NumberValue(0, 0)

Infinity(sign) == NumberValue(sign, 0)

isNaN(a) == a.den = 0 /\ a.num = 0

isFinite(a) == a.den # 0

NumAdd(a, b) ==
    IF isNaN(a) \/ isNaN(b) THEN NaN
    ELSE IF ~isFinite(a) /\ ~isFinite(b) THEN (IF a.num = b.num THEN a ELSE NaN)
    ELSE IF ~isFinite(a) THEN a
    ELSE IF ~isFinite(b) THEN b
    ELSE Fraction(a.num * b.den + b.num * a.den, a.den * b.den)

NumNeg(a) == NumberValue(-a.num, a.den)

NumSub(a, b) == NumAdd(a, NumNeg(b))

NumMul(a, b) ==
    IF isNaN(a) \/ isNaN(b) THEN NaN
    ELSE IF ~isFinite(a) \/ ~isFinite(b)
    THEN (IF a.num = 0 \/ b.num = 0 THEN NaN ELSE Infinity(Sign(a.num) * Sign(b.num)))
    ELSE Fraction(a.num * b.num, a.den * b.den)

NumDiv(a, b) ==
    IF isNaN(a) \/ isNaN(b) THEN NaN
    ELSE IF ~isFinite(a) THEN (IF ~isFinite(b) THEN NaN
                               ELSE Infinity(IF b.num < 0 THEN -a.num ELSE a.num))
    ELSE IF ~isFinite(b) THEN NumberValue(0, 1)
    ELSE IF b.num = 0 THEN Infinity(Sign(a.num))
    ELSE Fraction(Sign(b.num) * a.num * b.den, a.den * Abs(b.num))

NumLess(a, b) ==
    IF isNaN(a) \/ isNaN(b) THEN FALSE
    ELSE IF ~isFinite(a) THEN a.num < 0 /\ a # b
    ELSE IF ~isFinite(b) THEN b.num > 0
    ELSE a.num * b.den < b.num * a.den

\* left === right
StrictEquals(a, b) == IF isNaN(a) \/ isNaN(b) THEN FALSE ELSE a = b

Result(value, h) == [ok |-> TRUE, value |-> value, heap |-> h, error |-> NoError]

Raise(error, h) == [ok |-> FALSE, value |-> NilValue, heap |-> h, error |-> error]

\* the switch of visitBinary, both operands evaluated
binaryOp(operator, left, right, h) ==
    LET type == operator.type
        el == checkNumberOperand(operator, left)
        er == checkNumberOperand(operator, right)
        numeric(v) == IF el # NoError THEN Raise(el, h)
                      ELSE IF er # NoError THEN Raise(er, h)
                      ELSE Result(v, h)
    IN  CASE type = "MINUS" -> numeric(NumSub(left, right))
          [] type = "SLASH" -> numeric(NumDiv(left, right))
          [] type = "STAR" -> numeric(NumMul(left, right))
          [] type = "PLUS" ->
                IF left.kind = "number" /\ right.kind = "number"
                THEN Result(NumAdd(left, right), h)
                ELSE IF left.kind = "string" /\ right.kind = "string"
                THEN Result(StringValue(left.str \o right.str), h)
                ELSE Raise(RuntimeError(operator,
                               <<"Operands must be two numbers or two strings.">>), h)
          [] type = "GREATER" -> numeric(BooleanValue(NumLess(right, left)))
          [] type = "GREATER_EQUAL" ->
                numeric(BooleanValue(NumLess(right, left) \/ StrictEquals(left, right)))
          [] type = "LESS" -> numeric(BooleanValue(NumLess(left, right)))
          [] type = "LESS_EQUAL" ->
                numeric(BooleanValue(NumLess(left, right) \/ StrictEquals(left, right)))
          [] type = "BANG_EQUAL" -> Result(BooleanValue(~StrictEquals(left, right)), h)
          [] type = "EQUAL_EQUAL" -> Result(BooleanValue(StrictEquals(left, right)), h)
          [] OTHER -> Result(NilValue, h)

\* the switch of visitUnary, the operand evaluated
unaryOp(operator, right, h) ==
    CASE operator.type = "MINUS" ->
            IF checkNumberOperand(operator, right) # NoError
            THEN Raise(checkNumberOperand(operator, right), h)
            ELSE Result(NumNeg(right), h)
      [] operator.type = "BANG" -> Result(BooleanValue(~isTruthy(right)), h)
      [] OTHER -> Result(NilValue, h)

\* evaluate(expr) with the heap h and this.environment = env: the value and
\* the heap afterwards, or the error thrown and the heap at the throw
RECURSIVE evaluate(_, _, _), visitBinary(_, _, _)

NumericOperators == {"MINUS", "SLASH", "STAR", "GREATER", "GREATER_EQUAL", "LESS",
                     "LESS_EQUAL"}

\* a visitBinary that checks the left operand of a numeric operator before
\* it evaluates the right operand
visitBinaryCheckingLeftFirst(expr, h, env) ==
    LET left == evaluate(expr.left, h, env)
    IN  IF ~left.ok THEN left
        ELSE IF /\ expr.operator.type \in NumericOperators
                /\ checkNumberOperand(expr.operator, left.value) # NoError
        THEN Raise(checkNumberOperand(expr.operator, left.value), left.heap)
        ELSE LET right == evaluate(expr.right, left.heap, env)
             IN  IF ~right.ok THEN right
                 ELSE binaryOp(expr.operator, left.value, right.value, right.heap)

\* visitBinary: the left operand, then the right one, then the switch
visitBinary(expr, h, env) ==
    LET left == evaluate(expr.left, h, env)
    IN  IF ~left.ok THEN left
        ELSE LET right == evaluate(expr.right, left.heap, env)
             IN  IF ~right.ok THEN right
                 ELSE binaryOp(expr.operator, left.value, right.value, right.heap)

evaluate(expr, h, env) ==
    CASE expr.node = "Binary" -> visitBinary(expr, h, env)
      [] expr.node = "Grouping" -> evaluate(expr.expression, h, env)
      [] expr.node = "Literal" -> Result(expr.value, h)
      [] expr.node = "Unary" ->
            LET right == evaluate(expr.right, h, env)
            IN  IF ~right.ok THEN right
                ELSE unaryOp(expr.operator, right.value, right.heap)
      [] expr.node = "VariableExpr" ->
            LET g == get(h, env, expr.name)
            IN  IF g.ok THEN Result(g.value, h) ELSE Raise(g.error, h)
      [] expr.node = "AssignExpr" ->
            LET value == evaluate(expr.value, h, env)
            IN  IF ~value.ok THEN value
                ELSE LET a == assign(value.heap, env, expr.name, value.value)
                     IN  IF a.ok THEN Result(value.value, a.heap)
                         ELSE Raise(a.error, a.heap)

DigitChar(d) ==
    CASE d = 0 -> "0" [] d = 1 -> "1" [] d = 2 -> "2" [] d = 3 -> "3" [] d = 4 -> "4"
      [] d = 5 -> "5" [] d = 6 -> "6" [] d = 7 -> "7" [] d = 8 -> "8" [] d = 9 -> "9"

\* the decimal digits of a natural number
RECURSIVE NatDigits(_)
NatDigits(n) ==
    IF n < 10 THEN <<DigitChar(n)>> ELSE Append(NatDigits(n \div 10), DigitChar(n % 10))

\* the decimal digits of n, left-padded with zeros to k digits
RECURSIVE PadDigits(_, _)
PadDigits(n, k) == IF k = 0 THEN <<>> ELSE Append(PadDigits(n \div 10, k - 1), DigitChar(n % 10))

\* Number.prototype.toString of the numbers whose decimal expansion has at
\* most three fractional digits, and of the values of a division by zero
numberToString(a) ==
    IF a.den = 0
    THEN (CASE a.num = 0 -> <<"N", "a", "N">>
            [] a.num > 0 -> <<"I", "n", "f", "i", "n", "i", "t", "y">>
            [] a.num < 0 -> <<"-", "I", "n", "f", "i", "n", "i", "t", "y">>)
    ELSE LET k == CHOOSE i \in 0..3 : /\ Pow10(i) % a.den = 0
                                      /\ \A j \in 0..(i - 1) : Pow10(j) % a.den # 0
             scaled == Abs(a.num) * (Pow10(k) \div a.den)
             sign == IF a.num < 0 THEN <<"-">> ELSE <<>>
         IN  sign \o NatDigits(scaled \div Pow10(k))
                  \o (IF k = 0 THEN <<>> ELSE <<".">> \o PadDigits(scaled % Pow10(k), k))

\* stringify(value): "nil" for null, value.toString() otherwise
stringify(value) ==
    CASE value.kind = "nil" -> <<"n", "i", "l">>
      [] value.kind = "boolean" ->
            IF value.bool THEN <<"t", "r", "u", "e">> ELSE <<"f", "a", "l", "s", "e">>
      [] value.kind = "string" -> value.str
      [] value.kind = "number" -> numberToString(value)

\* the Environment of the globals, made with the Interpreter
GlobalEnv == 1

\* an active call of interpret (the first frame) or of visitBlockStmt: the
\* statements its loop has still to execute, and its const previousEnv
Frame(stmts, previousEnv) == [statements |-> stmts, previousEnv |-> previousEnv]

top == frames[Len(frames)]

\* the loop of the innermost active call is about to execute a statement
executing(kind) ==
    /\ pc = "interpret"
    /\ thrown = NoError
    /\ top.statements # <<>>
    /\ Head(top.statements).node = kind

\* the loop of the innermost active call moves to its next statement
nextStatement == [frames EXCEPT ![Len(frames)].statements = Tail(@)]

visitExpressionStmt(stmt) ==
    LET r == evaluate(stmt.expression, heap, environment)
    IN  /\ heap' = r.heap
        /\ thrown' = r.error
        /\ frames' = IF r.ok THEN nextStatement ELSE frames
        /\ UNCHANGED <<stdout, environment, lastDefined, blockEntry>>

visitPrintStmt(stmt) ==
    LET value == evaluate(stmt.expression, heap, environment)
    IN  /\ heap' = value.heap
        /\ thrown' = value.error
        /\ stdout' = IF value.ok THEN Append(stdout, stringify(value.value)) ELSE stdout
        /\ frames' = IF value.ok THEN nextStatement ELSE frames
        /\ UNCHANGED <<environment, lastDefined, blockEntry>>

visitVarStmt(stmt) ==
    LET value == IF stmt.initializer # NoExpr
                 THEN evaluate(stmt.initializer, heap, environment)
                 ELSE Result(NilValue, heap)
    IN  /\ heap' = IF value.ok
                   THEN define(value.heap, environment, stmt.name.lexeme, value.value)
                   ELSE value.heap
        /\ lastDefined' = IF value.ok
                          THEN [lastDefined EXCEPT ![environment] =
                                   (stmt.name.lexeme :> value.value) @@ @]
                          ELSE lastDefined
        /\ thrown' = value.error
        /\ frames' = IF value.ok THEN nextStatement ELSE frames
        /\ UNCHANGED <<stdout, environment, blockEntry>>

\* history: what a block found when it was entered
BlockEntry(h, env, stmts) == [heap |-> h, environment |-> env, block |-> stmts]

\* visitBlockStmt up to its loop: save the environment, install a new one
visitBlockStmt(stmt) ==
    /\ heap' = Append(heap, NewEnvironment(environment))
    /\ environment' = Len(heap) + 1
    /\ frames' = Append(nextStatement, Frame(stmt.statements, environment))
    /\ lastDefined' = Append(lastDefined, EmptyMap)
    /\ blockEntry' = Append(blockEntry, BlockEntry(heap, environment, stmt.statements))
    /\ UNCHANGED <<stdout, thrown>>

\* visitBlockStmt without try/finally: the environment is restored only
\* after the loop, a throw leaves it as it is
blockFinallyAfterLoopOnly ==
    /\ environment' = IF thrown = NoError THEN top.previousEnv ELSE environment
    /\ frames' = SubSeq(frames, 1, Len(frames) - 1)
    /\ blockEntry' = SubSeq(blockEntry, 1, Len(blockEntry) - 1)
    /\ UNCHANGED <<heap, stdout, thrown, lastDefined>>

\* the finally of visitBlockStmt, reached when the loop is over or when a
\* statement of the block has thrown
blockFinally ==
    /\ environment' = top.previousEnv
    /\ frames' = SubSeq(frames, 1, Len(frames) - 1)
    /\ blockEntry' = SubSeq(blockEntry, 1, Len(blockEntry) - 1)
    /\ UNCHANGED <<heap, stdout, thrown, lastDefined>>

restOfInterpreter == <<pc, driverVars, scanner, parser, statements, hadError,
                       hadRuntimeError, stderr>>

VisitExpressionStmt ==
    /\ executing("ExpressionStmt")
    /\ visitExpressionStmt(Head(top.statements))
    /\ UNCHANGED restOfInterpreter

VisitPrintStmt ==
    /\ executing("PrintStmt")
    /\ visitPrintStmt(Head(top.statements))
    /\ UNCHANGED restOfInterpreter

VisitVarStmt ==
    /\ executing("VarStmt")
    /\ visitVarStmt(Head(top.statements))
    /\ UNCHANGED restOfInterpreter

VisitBlockStmt ==
    /\ executing("BlockStmt")
    /\ visitBlockStmt(Head(top.statements))
    /\ UNCHANGED restOfInterpreter

BlockFinally ==
    /\ pc = "interpret"
    /\ Len(frames) > 1
    /\ thrown # NoError \/ top.statements = <<>>
    /\ blockFinally
    /\ UNCHANGED restOfInterpreter

\* what Lox.runtimeError writes: `${error.message}\n[line ${error.token.line}]`
RuntimeErrorLines(error) ==
    [channel |-> "runtimeError", message |-> error.message, line |-> error.token.line]

\* interpret(): the loop is over, the call returns
InterpretReturn ==
    /\ pc = "interpret"
    /\ Len(frames) = 1
    /\ thrown = NoError
    /\ top.statements = <<>>
    /\ pc' = "interpreted"
    /\ UNCHANGED <<driverVars, scanner, parser, statements, interpreterVars, thrown,
                   hadError, hadRuntimeError, stdout, stderr>>

\* a catch inside the loop of interpret(): the RuntimeError is reported and
\* the loop goes on with the statement after the failing one
InterpretCatchInLoop ==
    /\ pc = "interpret"
    /\ Len(frames) = 1
    /\ thrown # NoError
    /\ stderr' = Append(stderr, RuntimeErrorLines(thrown))
    /\ hadRuntimeError' = TRUE
    /\ thrown' = NoError
    /\ frames' = nextStatement
    /\ UNCHANGED <<pc, driverVars, scanner, parser, statements, heap, environment,
                   lastDefined, blockEntry, hadError, stdout>>

\* interpret(): the catch, which hands the RuntimeError to Lox.runtimeError
InterpretCatch ==
    /\ pc = "interpret"
    /\ Len(frames) = 1
    /\ thrown # NoError
    /\ stderr' = Append(stderr, RuntimeErrorLines(thrown))
    /\ hadRuntimeError' = TRUE
    /\ thrown' = NoError
    /\ pc' = "interpreted"
    /\ UNCHANGED <<driverVars, scanner, parser, statements, interpreterVars,
                   hadError, stdout>>

(***************************************************************************)
(* Lox, the driver  (src/src/main.ts, lines 80-177)                        *)
(***************************************************************************)
Running == -1

\* the objects of a call of run() that were not made yet
NoScanner == NewScanner(<<>>)

NoParser == NewParser(<<>>)

\* the characters of the texts given to the driver
DriverAlphabet == {"1", "-", "\"", ";"}

\* the sequences over S of length at most n
SeqUpTo(S, n) == UNION {[1..k -> S] : k \in 0..n}

DriverSources == SeqUpTo(DriverAlphabet, MaxLineLen)

\* run(source) up to the call of scanTokens(): new Scanner(source)
runStart(source) ==
    /\ scanner' = NewScanner(source)
    /\ parser' = NoParser
    /\ statements' = <<>>
    /\ heap' = <<>>
    /\ environment' = Null
    /\ frames' = <<>>
    /\ lastDefined' = <<>>
    /\ blockEntry' = <<>>
    /\ pc' = "scan"

\* main(): more than one argument
MainUsage ==
    /\ pc = "main"
    /\ mode = "usage"
    /\ stdout' = Append(stdout, <<"Usage: jlox [script]">>)
    /\ exitCode' = 64
    /\ pc' = "exit"
    /\ UNCHANGED <<mode, linesRead, scanner, parser, statements, interpreterVars, thrown,
                   hadError, hadRuntimeError, stderr>>

\* runFile(path): the file is read and run() is called
RunFile ==
    /\ pc = "main"
    /\ mode = "file"
    /\ \E source \in DriverSources : runStart(source)
    /\ UNCHANGED <<driverVars, thrown, hadError, hadRuntimeError, stdout, stderr>>

\* runFile(path): readFileSync throws, the catch reports and exits
RunFileUnreadable ==
    /\ pc = "main"
    /\ mode = "file"
    /\ stderr' = Append(stderr, [channel |-> "Could not read file"])
    /\ exitCode' = 65
    /\ pc' = "exit"
    /\ UNCHANGED <<mode, linesRead, scanner, parser, statements, interpreterVars, thrown,
                   hadError, hadRuntimeError, stdout>>

\* runPrompt(): the listeners are installed and the prompt is shown
RunPrompt ==
    /\ pc = "main"
    /\ mode = "repl"
    /\ pc' = "prompt"
    /\ UNCHANGED <<driverVars, scanner, parser, statements, interpreterVars, thrown,
                   hadError, hadRuntimeError, stdout, stderr>>

\* the 'line' listener up to the call of scanTokens() in run(line)
ReadLine ==
    /\ pc = "prompt"
    /\ linesRead < MaxLines
    /\ \E source \in DriverSources : runStart(source)
    /\ linesRead' = linesRead + 1
    /\ UNCHANGED <<mode, exitCode, thrown, hadError, hadRuntimeError, stdout, stderr>>

\* the 'close' listener
Close ==
    /\ pc = "prompt"
    /\ exitCode' = 0
    /\ pc' = "exit"
    /\ UNCHANGED <<mode, linesRead, scanner, parser, statements, interpreterVars, thrown,
                   hadError, hadRuntimeError, stdout, stderr>>

\* run(): scanTokens() has returned; stop on a lexical error, else new Parser
RunAfterScan ==
    /\ pc = "scanned"
    /\ IF hadError
       THEN /\ pc' = "ran"
            /\ UNCHANGED <<parser, statements>>
       ELSE /\ parser' = NewParser(scanner.tokens)
            /\ statements' = <<>>
            /\ pc' = "parse"
    /\ UNCHANGED <<driverVars, scanner, interpreterVars, thrown, hadError,
                   hadRuntimeError, stdout, stderr>>

\* new Interpreter() and the start of interpret(statements)
newInterpreter(stmts) ==
    /\ heap' = <<NewEnvironment(Null)>>
    /\ environment' = GlobalEnv
    /\ frames' = <<Frame(stmts, Null)>>
    /\ lastDefined' = <<EmptyMap>>
    /\ blockEntry' = <<>>

\* run(): parse() has returned; stop on a syntax error, else interpret
RunAfterParse ==
    /\ pc = "parsed"
    /\ IF hadError
       THEN /\ pc' = "ran"
            /\ UNCHANGED interpreterVars
       ELSE /\ newInterpreter(statements)
            /\ pc' = "interpret"
    /\ UNCHANGED <<driverVars, scanner, parser, statements, thrown, hadError,
                   hadRuntimeError, stdout, stderr>>

\* run(): interpret() has returned, and so does run()
RunReturn ==
    /\ pc = "interpreted"
    /\ pc' = "ran"
    /\ UNCHANGED <<driverVars, scanner, parser, statements, interpreterVars, thrown,
                   hadError, hadRuntimeError, stdout, stderr>>

\* runFile() without its check of hadRuntimeError
RunFileExitWithoutRuntimeCheck ==
    /\ pc = "ran"
    /\ mode = "file"
    /\ exitCode' = IF hadError THEN 65 ELSE 0
    /\ pc' = "exit"
    /\ UNCHANGED <<mode, linesRead, scanner, parser, statements, interpreterVars, thrown,
                   hadError, hadRuntimeError, stdout, stderr>>

\* runFile(): after run(); without an error the process ends with code 0
RunFileExit ==
    /\ pc = "ran"
    /\ mode = "file"
    /\ exitCode' = IF hadError THEN 65 ELSE IF hadRuntimeError THEN 70 ELSE 0
    /\ pc' = "exit"
    /\ UNCHANGED <<mode, linesRead, scanner, parser, statements, interpreterVars, thrown,
                   hadError, hadRuntimeError, stdout, stderr>>

\* runFile(): the catch around run(), reached by the ParseError parse() throws
RunFileCatch ==
    /\ pc = "parseThrown"
    /\ mode = "file"
    /\ stderr' = Append(stderr, [channel |-> "Could not read file"])
    /\ thrown' = NoError
    /\ exitCode' = 65
    /\ pc' = "exit"
    /\ UNCHANGED <<mode, linesRead, scanner, parser, statements, interpreterVars,
                   hadError, hadRuntimeError, stdout>>

\* the 'line' listener after run(line): reset hadError, show the prompt
LineDone ==
    /\ pc = "ran"
    /\ mode = "repl"
    /\ hadError' = FALSE
    /\ pc' = "prompt"
    /\ UNCHANGED <<driverVars, scanner, parser, statements, interpreterVars, thrown,
                   hadRuntimeError, stdout, stderr>>

\* the ParseError parse() throws leaves the 'line' listener: nothing catches
\* it, Node prints it and the process ends with code 1
LineUncaught ==
    /\ pc = "parseThrown"
    /\ mode = "repl"
    /\ stderr' = Append(stderr, [channel |-> "Uncaught", error |-> thrown])
    /\ exitCode' = 1
    /\ pc' = "exit"
    /\ UNCHANGED <<mode, linesRead, scanner, parser, statements, interpreterVars, thrown,
                   hadError, hadRuntimeError, stdout>>

(***************************************************************************)
(* The program: Lox.main() with the scanner, the parser and the            *)
(* interpreter it runs.  The Parser builds no PrintStmt, VarStmt or        *)
(* BlockStmt from the tokens of this Scanner (see OnlyExpressionStmts), so *)
(* the other visit methods are actions of SpecInterpreter alone.           *)
(***************************************************************************)
Init ==
    /\ pc = "main"
    /\ mode \in {"usage", "file", "repl"}
    /\ linesRead = 0
    /\ scanner = NoScanner
    /\ parser = NoParser
    /\ statements = <<>>
    /\ heap = <<>>
    /\ environment = Null
    /\ frames = <<>>
    /\ thrown = NoError
    /\ hadError = FALSE
    /\ hadRuntimeError = FALSE
    /\ stdout = <<>>
    /\ stderr = <<>>
    /\ exitCode = Running
    /\ lastDefined = <<>>
    /\ blockEntry = <<>>

Next ==
    \/ MainUsage \/ RunFile \/ RunFileUnreadable \/ RunPrompt \/ ReadLine \/ Close
    \/ ScanToken \/ ScanEOF \/ RunAfterScan
    \/ ParseDeclaration \/ ParseReturn \/ RunAfterParse
    \/ VisitExpressionStmt \/ InterpretReturn \/ InterpretCatch \/ RunReturn
    \/ RunFileExit \/ RunFileCatch \/ LineDone \/ LineUncaught

Spec == Init /\ [][Next]_vars

\* every statement the interpreter is given by run() is an ExpressionStmt
\* outside any block
OnlyExpressionStmts ==
    pc = "interpret" =>
        /\ Len(frames) = 1
        /\ \A i \in 1..Len(top.statements) : top.statements[i].node = "ExpressionStmt"

(***************************************************************************)
(* The Scanner alone: new Scanner(source).scanTokens()                     *)
(***************************************************************************)
ScannerAlphabet == {"v", "a", "r", "1", ".", "=", "/", "\"", "\n", " ", "@", ";"}

ScannerSources == SeqUpTo(ScannerAlphabet, MaxSrcLen)

InitScanner ==
    /\ pc = "scan"
    /\ mode = "scanner"
    /\ linesRead = 0
    /\ scanner \in {NewScanner(source) : source \in ScannerSources}
    /\ parser = NoParser
    /\ statements = <<>>
    /\ heap = <<>>
    /\ environment = Null
    /\ frames = <<>>
    /\ thrown = NoError
    /\ hadError = FALSE
    /\ hadRuntimeError = FALSE
    /\ stdout = <<>>
    /\ stderr = <<>>
    /\ exitCode = Running
    /\ lastDefined = <<>>
    /\ blockEntry = <<>>

NextScanner == ScanToken \/ ScanEOF

SpecScanner == InitScanner /\ [][NextScanner]_vars

(***************************************************************************)
(* The Parser alone: new Parser(tokens).parse(), the tokens ending with    *)
(* their only EOF as those of scanTokens() do                              *)
(***************************************************************************)
ParserTokens ==
    {Token("NUMBER", <<"1">>, NumberValue(1, 1), 1),
     Token("IDENTIFIER", <<"a">>, NilValue, 1),
     Token("PLUS", <<"+">>, NilValue, 1),
     Token("STAR", <<"*">>, NilValue, 1),
     Token("EQUAL", <<"=">>, NilValue, 1),
     Token("LEFT_PAREN", <<"(">>, NilValue, 1),
     Token("RIGHT_PAREN", <<")">>, NilValue, 1),
     Token("SEMICOLON", <<";">>, NilValue, 1),
     Token("PRINT", <<"p", "r", "i", "n", "t">>, NilValue, 1),
     Token("VAR", <<"v", "a", "r">>, NilValue, 1)}

EOFToken == Token("EOF", <<>>, NilValue, 1)

InitParser ==
    /\ pc = "parse"
    /\ mode = "parser"
    /\ linesRead = 0
    /\ scanner = NoScanner
    /\ parser \in {NewParser(Append(tokens, EOFToken)) :
                      tokens \in SeqUpTo(ParserTokens, MaxTokens)}
    /\ statements = <<>>
    /\ heap = <<>>
    /\ environment = Null
    /\ frames = <<>>
    /\ thrown = NoError
    /\ hadError = FALSE
    /\ hadRuntimeError = FALSE
    /\ stdout = <<>>
    /\ stderr = <<>>
    /\ exitCode = Running
    /\ lastDefined = <<>>
    /\ blockEntry = <<>>

NextParser == ParseDeclaration \/ ParseReturn

SpecParser == InitParser /\ [][NextParser]_vars

(***************************************************************************)
(* The Parser alone, given one expression statement: up to MaxExprLen      *)
(* operand and operator tokens of the four binary levels, then ';' and EOF *)
(***************************************************************************)
ExpressionTokens ==
    {Token("NUMBER", <<"1">>, NumberValue(1, 1), 1),
     Token("EQUAL_EQUAL", <<"=", "=">>, NilValue, 1),
     Token("LESS", <<"<">>, NilValue, 1),
     Token("PLUS", <<"+">>, NilValue, 1),
     Token("MINUS", <<"-">>, NilValue, 1),
     Token("STAR", <<"*">>, NilValue, 1)}

SemicolonToken == Token("SEMICOLON", <<";">>, NilValue, 1)

InitExpressions ==
    /\ pc = "parse"
    /\ mode = "expressions"
    /\ linesRead = 0
    /\ scanner = NoScanner
    /\ parser \in {NewParser(tokens \o <<SemicolonToken, EOFToken>>) :
                      tokens \in SeqUpTo(ExpressionTokens, MaxExprLen)}
    /\ statements = <<>>
    /\ heap = <<>>
    /\ environment = Null
    /\ frames = <<>>
    /\ thrown = NoError
    /\ hadError = FALSE
    /\ hadRuntimeError = FALSE
    /\ stdout = <<>>
    /\ stderr = <<>>
    /\ exitCode = Running
    /\ lastDefined = <<>>
    /\ blockEntry = <<>>

SpecExpressions == InitExpressions /\ [][NextParser]_vars

(***************************************************************************)
(* The Interpreter alone: new Interpreter().interpret(statements), the     *)
(* statements being any program of at most MaxNodes statements, blocks     *)
(* included, over one declared and one undeclared variable                 *)
(***************************************************************************)
Names == {<<"a">>, <<"b">>}

NameToken(lexeme) == Token("IDENTIFIER", lexeme, NilValue, 1)

\* var a;   var a = 1;   a = 2;   print a;   b = 2;
\* (b is declared nowhere: its assignment always throws)
SimpleStatements ==
    {VarStmt(NameToken(<<"a">>), NoExpr),
     VarStmt(NameToken(<<"a">>), Literal(NumberValue(1, 1))),
     ExpressionStmt(AssignExpr(NameToken(<<"a">>), Literal(NumberValue(2, 1)))),
     PrintStmt(VariableExpr(NameToken(<<"a">>))),
     ExpressionStmt(AssignExpr(NameToken(<<"b">>), Literal(NumberValue(2, 1))))}

\* the statement lists of exactly n statements, those inside blocks
\* counted, lists being the sequence of the sets for 0 .. n - 1 statements
nextStatementLists(lists, n) ==
    UNION {{<<s>> \o rest :
               s \in (IF k = 1 THEN SimpleStatements \cup {BlockStmt(<<>>)}
                      ELSE {BlockStmt(b) : b \in lists[k]}),
               rest \in lists[n - k + 1]} : k \in 1..n}

\* the sets of the statement lists of exactly 0, 1, .. n statements
RECURSIVE StatementLists(_), moreStatementLists(_, _)
StatementLists(n) ==
    IF n = 0 THEN <<{<<>>}>>
    ELSE moreStatementLists(StatementLists(n - 1), n)

moreStatementLists(lists, n) == Append(lists, nextStatementLists(lists, n))

\* the programs of at most max statements
Programs(max) == UNION {StatementLists(max)[n + 1] : n \in 0..max}

InitInterpreter ==
    /\ pc = "interpret"
    /\ mode = "interpreter"
    /\ linesRead = 0
    /\ scanner = NoScanner
    /\ parser = NoParser
    /\ statements \in Programs(MaxNodes)
    /\ heap = <<NewEnvironment(Null)>>
    /\ environment = GlobalEnv
    /\ frames = <<Frame(statements, Null)>>
    /\ thrown = NoError
    /\ hadError = FALSE
    /\ hadRuntimeError = FALSE
    /\ stdout = <<>>
    /\ stderr = <<>>
    /\ exitCode = Running
    /\ lastDefined = <<EmptyMap>>
    /\ blockEntry = <<>>

NextInterpreter ==
    \/ VisitExpressionStmt \/ VisitPrintStmt \/ VisitVarStmt \/ VisitBlockStmt
    \/ BlockFinally \/ InterpretReturn \/ InterpretCatch

SpecInterpreter == InitInterpreter /\ [][NextInterpreter]_vars

(***************************************************************************)
(* The Interpreter alone, given `var a = 1; print e;` for the binary       *)
(* expressions e of depth up to MaxDepth                                   *)
(***************************************************************************)
\* 1   "s"   a   b   a = 2   -"s"     (b is declared nowhere)
Operands ==
    {Literal(NumberValue(1, 1)),
     Literal(StringValue(<<"s">>)),
     VariableExpr(NameToken(<<"a">>)),
     VariableExpr(NameToken(<<"b">>)),
     AssignExpr(NameToken(<<"a">>), Literal(NumberValue(2, 1))),
     Unary(Token("MINUS", <<"-">>, NilValue, 1), Literal(StringValue(<<"s">>)))}

Operators ==
    {Token("MINUS", <<"-">>, NilValue, 1),
     Token("PLUS", <<"+">>, NilValue, 1),
     Token("EQUAL_EQUAL", <<"=", "=">>, NilValue, 1)}

\* the operands and the binary expressions over the expressions given
binaries(operands) ==
    operands \cup {Binary(l, op, r) : l \in operands, op \in Operators, r \in operands}

\* the expressions of at most depth binary operators nested
RECURSIVE Expressions(_)
Expressions(depth) ==
    IF depth = 0 THEN Operands ELSE binaries(Expressions(depth - 1))

InitEvaluation ==
    /\ pc = "interpret"
    /\ mode = "evaluation"
    /\ linesRead = 0
    /\ scanner = NoScanner
    /\ parser = NoParser
    /\ statements \in {<<VarStmt(NameToken(<<"a">>), Literal(NumberValue(1, 1))),
                         PrintStmt(e)>> : e \in Expressions(MaxDepth)}
    /\ heap = <<NewEnvironment(Null)>>
    /\ environment = GlobalEnv
    /\ frames = <<Frame(statements, Null)>>
    /\ thrown = NoError
    /\ hadError = FALSE
    /\ hadRuntimeError = FALSE
    /\ stdout = <<>>
    /\ stderr = <<>>
    /\ exitCode = Running
    /\ lastDefined = <<EmptyMap>>
    /\ blockEntry = <<>>

NextEvaluation == VisitVarStmt \/ VisitPrintStmt \/ InterpretReturn \/ InterpretCatch

SpecEvaluation == InitEvaluation /\ [][NextEvaluation]_vars

(***************************************************************************)
(* Scanner properties                                                      *)
(***************************************************************************)
\* the token list holds one EOF token, and it is the last one
EndsWithOneEOF(tokens) ==
    /\ tokens # <<>>
    /\ tokens[Len(tokens)].type = "EOF"
    /\ \A i \in 1..(Len(tokens) - 1) : tokens[i].type # "EOF"

\* C1: for every source, scanTokens() terminates: each iteration of its loop
\* consumes at least one character and never goes past the end of the
\* source, so there are at most as many iterations as characters; no EOF
\* token is added on the way, and the token list returned ends with an EOF
\* token and holds no other EOF token, whether or not a lexical error was
\* reported.
C1_ScanTokensEndsWithOneEOF ==
    [][/\ (pc = "scan" /\ pc' = "scan") =>
            /\ scanner'.current > scanner.current
            /\ scanner'.current <= Len(scanner.source)
            /\ \A i \in DOMAIN scanner'.tokens : scanner'.tokens[i].type # "EOF"
       /\ pc' = "scanned" =>
            /\ scanner'.current = Len(scanner.source)
            /\ EndsWithOneEOF(scanner'.tokens)]_vars

\* C1, its case: scanTokens() has returned after it reported a lexical error
\* and added tokens
C1_Witness ==
    /\ pc = "scanned"
    /\ hadError
    /\ Len(scanner.tokens) > 1
    /\ EndsWithOneEOF(scanner.tokens)

Alpha ==
    {"a", "b", "c", "d", "e", "f", "g", "h", "i", "j", "k", "l", "m", "n", "o", "p", "q",
     "r", "s", "t", "u", "v", "w", "x", "y", "z",
     "A", "B", "C", "D", "E", "F", "G", "H", "I", "J", "K", "L", "M", "N", "O", "P", "Q",
     "R", "S", "T", "U", "V", "W", "X", "Y", "Z", "_"}

\* a letter or '_', then letters, digits or '_'
isIdentifier(text) ==
    /\ text # <<>>
    /\ text[1] \in Alpha
    /\ \A i \in 2..Len(text) : text[i] \in Alpha \cup Digits

\* the reserved words and their token kinds
Keywords ==
    {[lexeme |-> <<"v", "a", "r">>, type |-> "VAR"],
     [lexeme |-> <<"p", "r", "i", "n", "t">>, type |-> "PRINT"],
     [lexeme |-> <<"t", "r", "u", "e">>, type |-> "TRUE"],
     [lexeme |-> <<"f", "a", "l", "s", "e">>, type |-> "FALSE"],
     [lexeme |-> <<"n", "i", "l">>, type |-> "NIL"],
     [lexeme |-> <<"i", "f">>, type |-> "IF"],
     [lexeme |-> <<"e", "l", "s", "e">>, type |-> "ELSE"],
     [lexeme |-> <<"a", "n", "d">>, type |-> "AND"],
     [lexeme |-> <<"o", "r">>, type |-> "OR"],
     [lexeme |-> <<"w", "h", "i", "l", "e">>, type |-> "WHILE"],
     [lexeme |-> <<"f", "o", "r">>, type |-> "FOR"],
     [lexeme |-> <<"f", "u", "n">>, type |-> "FUN"],
     [lexeme |-> <<"r", "e", "t", "u", "r", "n">>, type |-> "RETURN"],
     [lexeme |-> <<"c", "l", "a", "s", "s">>, type |-> "CLASS"],
     [lexeme |-> <<"t", "h", "i", "s">>, type |-> "THIS"],
     [lexeme |-> <<"s", "u", "p", "e", "r">>, type |-> "SUPER"]}

\* the token kind of an identifier lexeme
identifierType(text) ==
    IF \E k \in Keywords : k.lexeme = text
    THEN (CHOOSE k \in Keywords : k.lexeme = text).type
    ELSE "IDENTIFIER"

\* C2: a source that is one identifier lexeme is scanned without a lexical
\* error into exactly one token before EOF, whose lexeme is the source and
\* whose kind is the reserved kind of a reserved word and IDENTIFIER otherwise.
C2_IdentifiersAndReservedWords ==
    (pc = "scanned" /\ isIdentifier(scanner.source)) =>
        /\ ~hadError
        /\ Len(scanner.tokens) = 2
        /\ scanner.tokens[1].type = identifierType(scanner.source)
        /\ scanner.tokens[1].lexeme = scanner.source

(***************************************************************************)
(* Parser properties                                                       *)
(***************************************************************************)
\* C3: a call of parse() ends only when it has gone through all the tokens:
\* after a syntax error it synchronizes and goes on with the next
\* declaration, so the statements after the error are parsed in the same call.
C3_ParseResumesAfterError ==
    pc \in {"parsed", "parseThrown"} => Parser_isAtEnd(parser)

\* C4: when parse() returns, its cursor is on the EOF token, and when the
\* parser has met a syntax error, hadError is true.
C4_ParseConsumesAllOrSetsHadError ==
    /\ pc = "parsed" => Parser_peek(parser).type = "EOF"
    /\ pc = "parseThrown" => hadError

(***************************************************************************)
(* Driver properties                                                       *)
(***************************************************************************)
\* an Interpreter was made for the source of this call of run()
interpreterStarted == pc \in {"interpret", "interpreted"} \/ heap # <<>>

\* C5: the interpreter runs for a source only if scanning it reported no
\* error and parsing its tokens threw no error: for a source with a lexical
\* or a syntax error no Interpreter is made, so there is no environment and
\* nothing is executed.
C5_InterpretOnlyWithoutError ==
    interpreterStarted =>
        /\ ~hadError
        /\ scanTokens(NewScanner(scanner.source), <<>>)[2] = <<>>
        /\ parse(NewParser(scanner.tokens), <<>>).ok
        /\ statements = parse(NewParser(scanner.tokens), <<>>).statements

\* C5, its case: run() has returned for a source with a lexical error, and
\* no Interpreter was made
C5_Witness ==
    /\ pc = "ran"
    /\ hadError
    /\ scanTokens(NewScanner(scanner.source), <<>>)[2] # <<>>
    /\ ~interpreterStarted
    /\ stdout = <<>>

\* C6: in the REPL, hadError is false when a line starts to be scanned; a
\* line with a lexical or a syntax error does not end the REPL, which ends
\* only when the input is closed; hadRuntimeError is true once a runtime
\* error was reported.
C6_ReplLinesIndependent ==
    /\ (mode = "repl" /\ pc = "scan" /\ scanner.current = 0) => ~hadError
    /\ (mode = "repl" /\ pc = "exit") => (exitCode = 0 /\ thrown = NoError)
    /\ (\E i \in DOMAIN stderr : stderr[i].channel = "runtimeError") => hadRuntimeError

(***************************************************************************)
(* Interpreter properties                                                  *)
(***************************************************************************)
\* the step enters a block / leaves a block
blockEntered == Len(frames') > Len(frames)

blockLeft == Len(frames') < Len(frames)

\* what the innermost active block found when it was entered
entry == blockEntry[Len(blockEntry)]

\* C7: entering a block installs a new, empty environment whose enclosing is
\* the current one; leaving it, after its last statement or by a runtime
\* error of a statement at any depth, makes the environment current at its
\* entry current again; when interpret() returns, with or without a runtime
\* error, the current environment is the global one.
C7_BlockRestoresEnvironment ==
    [][/\ blockEntered =>
            /\ environment' \notin 1..Len(heap)
            /\ heap'[environment'] = NewEnvironment(environment)
       /\ blockLeft => environment' = entry.environment
       /\ pc' = "interpreted" => environment' = GlobalEnv]_vars

\* C7, its case: a runtime error raised in a block inside a block goes up;
\* the inner block was left and the environment of the outer one is current
C7_Witness ==
    /\ pc = "interpret"
    /\ thrown # NoError
    /\ Len(frames) = 2
    /\ top.statements = <<>>
    /\ Len(heap) = 3
    /\ heap[3].enclosing = 2
    /\ environment = 2

\* the names an expression / a list of statements assigns to
RECURSIVE assignedInExpr(_)
assignedInExpr(expr) ==
    CASE expr.node = "AssignExpr" -> {expr.name.lexeme} \cup assignedInExpr(expr.value)
      [] expr.node = "Binary" -> assignedInExpr(expr.left) \cup assignedInExpr(expr.right)
      [] expr.node = "Grouping" -> assignedInExpr(expr.expression)
      [] expr.node = "Unary" -> assignedInExpr(expr.right)
      [] OTHER -> {}

RECURSIVE assignedIn(_)
assignedIn(stmts) ==
    UNION {CASE stmts[i].node = "BlockStmt" -> assignedIn(stmts[i].statements)
             [] stmts[i].node = "VarStmt" ->
                   IF stmts[i].initializer = NoExpr THEN {}
                   ELSE assignedInExpr(stmts[i].initializer)
             [] OTHER -> assignedInExpr(stmts[i].expression) : i \in DOMAIN stmts}

\* C8, as stated: when a block is left, after its last statement or by a
\* runtime error, its enclosing environment binds the same names to the same
\* values as when the block was entered.
C8_EnclosingIdentical ==
    [][blockLeft => heap'[entry.environment] = entry.heap[entry.environment]]_vars

\* C8, amended: when a block is left, after its last statement or by a
\* runtime error, every environment that existed when it was entered binds
\* the same names as then, and each name the block does not assign to has
\* the same value as then.
C8_EnclosingKeepsNames ==
    [][blockLeft =>
          \A e \in 1..Len(entry.heap) :
              /\ heap'[e].enclosing = entry.heap[e].enclosing
              /\ DOMAIN heap'[e].values = DOMAIN entry.heap[e].values
              /\ \A n \in DOMAIN heap'[e].values :
                    n \notin assignedIn(entry.block) =>
                        heap'[e].values[n] = entry.heap[e].values[n]]_vars

\* C8, its case: a block that assigned to a variable of its enclosing
\* environment is about to be left by a runtime error
C8_Witness ==
    /\ pc = "interpret"
    /\ Len(frames) = 2
    /\ thrown # NoError
    /\ DOMAIN heap[entry.environment].values # {}
    /\ heap[entry.environment] # entry.heap[entry.environment]

\* the environments from env outwards
RECURSIVE chain(_, _)
chain(h, env) == IF env = Null THEN <<>> ELSE <<env>> \o chain(h, h[env].enclosing)

\* the innermost environment from env outwards that binds name, or Null
binder(h, env, name) ==
    LET c == chain(h, env)
        at == {i \in DOMAIN c : name \in DOMAIN h[c[i]].values}
    IN  IF at = {} THEN Null ELSE c[CHOOSE i \in at : \A j \in at : i <= j]

\* the step executes the statement `name = literal;`
assigning ==
    /\ executing("ExpressionStmt")
    /\ Head(top.statements).expression.node = "AssignExpr"

assignee == Head(top.statements).expression.name.lexeme

\* C9: an assignment overwrites the value of the name in the innermost
\* environment of the chain that binds it and changes nothing else; when no
\* environment of the chain binds the name it throws "Undefined variable
\* 'NAME'." and changes no environment.  At any time the names an environment
\* binds are the names defined in it.
C9_AssignNeverCreates ==
    [][/\ assigning =>
            IF binder(heap, environment, assignee) # Null
            THEN /\ thrown' = NoError
                 /\ heap' = [heap EXCEPT ![binder(heap, environment, assignee)]
                                            .values[assignee] =
                                     Head(top.statements).expression.value.value]
            ELSE /\ thrown'.name = "RuntimeError"
                 /\ thrown'.message = UndefinedVariable(assignee)
                 /\ heap' = heap
       /\ \A e \in 1..Len(heap') : DOMAIN heap'[e].values = DOMAIN lastDefined'[e]]_vars

\* C9, its case: inside a block, an assignment to a name that no environment
\* binds has thrown, while the enclosing environment binds another name
C9_Witness ==
    /\ pc = "interpret"
    /\ Len(frames) = 2
    /\ thrown # NoError
    /\ Head(top.statements).node = "ExpressionStmt"
    /\ thrown.message = UndefinedVariable(Head(top.statements).expression.name.lexeme)
    /\ DOMAIN heap[GlobalEnv].values # {}
    /\ heap = entry.heap \o <<NewEnvironment(GlobalEnv)>>

\* the step executes the statement `print name;`
printing ==
    /\ executing("PrintStmt")
    /\ Head(top.statements).expression.node = "VariableExpr"

printed == Head(top.statements).expression.name.lexeme

\* C10, as stated: a variable reference gives the value last passed to
\* define for the name in the innermost environment of the chain that binds
\* it, and throws "Undefined variable 'NAME'." only when no environment of
\* the chain binds the name.
C10_GetReturnsLastDefined ==
    [][printing =>
          IF binder(heap, environment, printed) # Null
          THEN /\ thrown' = NoError
               /\ stdout' = Append(stdout,
                      stringify(lastDefined[binder(heap, environment, printed)][printed]))
          ELSE /\ thrown'.name = "RuntimeError"
               /\ thrown'.message = UndefinedVariable(printed)
               /\ stdout' = stdout]_vars

\* C10, amended: a variable reference gives the current value of the name in
\* the innermost environment of the chain that binds it, and throws
\* "Undefined variable 'NAME'." only when no environment of the chain binds
\* the name; that value is the value last passed to define for the name in
\* that environment unless an assignment to the name, resolved to that
\* environment, has overwritten it since.
C10_GetReturnsInnermostBinding ==
    [][/\ printing =>
            IF binder(heap, environment, printed) # Null
            THEN /\ thrown' = NoError
                 /\ stdout' = Append(stdout,
                        stringify(heap[binder(heap, environment, printed)].values[printed]))
            ELSE /\ thrown'.name = "RuntimeError"
                 /\ thrown'.message = UndefinedVariable(printed)
                 /\ stdout' = stdout
       /\ \A e \in 1..Len(heap) : \A n \in DOMAIN heap'[e].values :
              heap'[e].values[n] # lastDefined'[e][n] =>
                  \/ /\ n \in DOMAIN heap[e].values
                     /\ heap[e].values[n] # lastDefined[e][n]
                     /\ lastDefined'[e][n] = lastDefined[e][n]
                  \/ /\ assigning
                     /\ assignee = n
                     /\ binder(heap, environment, n) = e]_vars

\* C10, its case: inside a block, a print of a name that the block and the
\* global environment both bind, to different values, has written the value
\* of the block's binding
C10_Witness ==
    /\ pc = "interpret"
    /\ Len(frames) = 2
    /\ environment = 2
    /\ \E n \in Names :
          /\ n \in DOMAIN heap[2].values
          /\ n \in DOMAIN heap[GlobalEnv].values
          /\ heap[2].values[n] # heap[GlobalEnv].values[n]
          /\ stdout = <<stringify(heap[2].values[n])>>
          /\ stringify(heap[2].values[n]) # stringify(heap[GlobalEnv].values[n])

\* the step executes the statement `var name;` or `var name = literal;`
declaring == executing("VarStmt")

declared == Head(top.statements).name.lexeme

declaredValue ==
    IF Head(top.statements).initializer = NoExpr THEN NilValue
    ELSE Head(top.statements).initializer.value

\* C11: a var statement changes only the current environment: there the name
\* is bound to the value afterwards and every other name is as before, and
\* no other environment changes, so a binding of the same name in an
\* enclosing environment keeps its value; when a block is left, every name
\* resolves to the environment it resolved to when the block was entered.
C11_DefineShadows ==
    [][/\ declaring =>
            /\ thrown' = NoError
            /\ Len(heap') = Len(heap)
            /\ \A e \in 1..Len(heap) : e # environment => heap'[e] = heap[e]
            /\ heap'[environment].enclosing = heap[environment].enclosing
            /\ DOMAIN heap'[environment].values =
                   DOMAIN heap[environment].values \cup {declared}
            /\ heap'[environment].values[declared] = declaredValue
            /\ \A n \in DOMAIN heap[environment].values \ {declared} :
                   heap'[environment].values[n] = heap[environment].values[n]
       /\ blockLeft =>
            \A n \in Names :
                /\ binder(heap', environment', n) = binder(entry.heap, entry.environment, n)
                /\ binder(heap', environment', n) # Null =>
                       DOMAIN heap'[binder(heap', environment', n)].values =
                           DOMAIN entry.heap[binder(heap', environment', n)].values]_vars

\* C11, its case: a block declared a name that the global environment binds
\* to another value; after the block a print of the name has written the
\* global value
C11_Witness ==
    /\ pc = "interpret"
    /\ Len(frames) = 1
    /\ environment = GlobalEnv
    /\ Len(heap) = 2
    /\ <<"a">> \in DOMAIN heap[2].values
    /\ <<"a">> \in DOMAIN heap[GlobalEnv].values
    /\ heap[2].values[<<"a">>] = NumberValue(1, 1)
    /\ heap[GlobalEnv].values[<<"a">>] = NilValue
    /\ stdout = <<stringify(NilValue)>>

\* C12: statements execute in the order of their list; a statement that
\* throws writes nothing, and while its error goes up nothing is executed:
\* blocks are left one by one until interpret() reports the error, sets
\* hadRuntimeError and returns; an interpret call reports at most one runtime
\* error, and none when no statement throws.
C12_FirstRuntimeErrorHalts ==
    [][/\ (thrown = NoError /\ thrown' = NoError /\ pc' = "interpret"
                /\ Len(frames') = Len(frames)) =>
            frames'[Len(frames)].statements = Tail(top.statements)
       /\ (thrown = NoError /\ thrown' # NoError) =>
            /\ frames' = frames
            /\ stdout' = stdout
            /\ pc' = "interpret"
       /\ thrown # NoError =>
            /\ stdout' = stdout
            /\ heap' = heap
            /\ \/ /\ Len(frames) > 1
                  /\ frames' = SubSeq(frames, 1, Len(frames) - 1)
                  /\ thrown' = thrown
                  /\ stderr' = stderr
               \/ /\ Len(frames) = 1
                  /\ pc' = "interpreted"
                  /\ frames' = frames
                  /\ hadRuntimeError'
                  /\ stderr' = <<RuntimeErrorLines(thrown)>>
       /\ (thrown = NoError /\ pc' = "interpreted") =>
            /\ ~hadRuntimeError'
            /\ stderr' = <<>>
       /\ pc = "interpreted" => UNCHANGED vars]_vars

\* C12, its case: interpret() has returned after the third statement of the
\* program threw; the print before it has written, the print after it has
\* not, and one runtime error was reported
C12_Witness ==
    /\ pc = "interpreted"
    /\ hadRuntimeError
    /\ Len(stderr) = 1
    /\ Len(stdout) = 1
    /\ Len(statements) = 4
    /\ frames[1].statements = SubSeq(statements, 3, 4)
    /\ statements[2].node = "PrintStmt"
    /\ statements[4].node = "PrintStmt"

\* the source of the file has a lexical error / its tokens a syntax error
lexicalError == scanTokens(NewScanner(scanner.source), <<>>)[2] # <<>>

syntaxError == ~parse(NewParser(scanner.tokens), <<>>).ok

\* a runtime error was reported
runtimeErrorReported == \E i \in DOMAIN stderr : stderr[i].channel = "runtimeError"

\* C13: when the process that ran a file has ended: if its source had a
\* lexical error the exit code is 65, no Parser was made and nothing was
\* evaluated; if its tokens had a syntax error the exit code is 65 and
\* nothing was evaluated; if a runtime error was reported the exit code is
\* 70; if there was none of these the program was evaluated and the exit
\* code is neither 65 nor 70.
C13_FileModeExitCodes ==
    (mode = "file" /\ pc = "exit" /\ scanner.tokens # <<>>) =>
        /\ lexicalError => (exitCode = 65 /\ parser = NoParser /\ heap = <<>>)
        /\ (~lexicalError /\ syntaxError) => (exitCode = 65 /\ heap = <<>>)
        /\ runtimeErrorReported => (exitCode = 70 /\ ~lexicalError /\ ~syntaxError)
        /\ (~lexicalError /\ ~syntaxError /\ ~runtimeErrorReported) =>
               (exitCode \notin {65, 70} /\ heap # <<>>)

\* C13, its case: the process that ran a file whose program raised a
\* runtime error has ended with code 70
C13_Witness ==
    /\ mode = "file"
    /\ pc = "exit"
    /\ scanner.tokens # <<>>
    /\ runtimeErrorReported
    /\ hadRuntimeError
    /\ exitCode = 70

\* the number of newline characters before the character at index i
newlinesBefore(source, i) == Cardinality({k \in 1..i : source[k] = "\n"})

\* an iteration of the loop of scanTokens() adds a token
tokenAdded ==
    /\ pc = "scan"
    /\ pc' = "scan"
    /\ Len(scanner'.tokens) > Len(scanner.tokens)

\* C14: the line of every token the scanner adds is one more than the number
\* of newline characters before the first character of the token, for STRING
\* tokens whose text holds newlines too.
C14_TokenLineIsLineOfFirstCharacter ==
    [][tokenAdded =>
          scanner'.tokens[Len(scanner'.tokens)].line =
              newlinesBefore(scanner.source, scanner.current) + 1]_vars

\* the same, for the tokens that are not STRING tokens
TokenLineOutsideStrings ==
    [][(tokenAdded /\ scanner'.tokens[Len(scanner'.tokens)].type # "STRING") =>
          scanner'.tokens[Len(scanner'.tokens)].line =
              newlinesBefore(scanner.source, scanner.current) + 1]_vars

\* a character that starts no lexeme
BadCharacter == "@"

\* the text with a space in the place of every bad character
blanked(text) ==
    [i \in DOMAIN text |-> IF text[i] = BadCharacter THEN " " ELSE text[i]]

\* the kinds, blanked lexemes and lines of the tokens
outline(tokens) ==
    [i \in DOMAIN tokens |->
        [type |-> tokens[i].type, lexeme |-> blanked(tokens[i].lexeme),
         line |-> tokens[i].line]]

\* an iteration of the loop of scanTokens() starts at a bad character
atBadCharacter ==
    /\ pc = "scan"
    /\ ~Scanner_isAtEnd(scanner)
    /\ charAt(scanner.source, scanner.current) = BadCharacter

\* C15: at a character that starts no lexeme the scanner reports
\* "Unexpected character." at the current line, sets hadError, skips that
\* one character and stays in its loop; scanTokens() returns the tokens, in
\* kind, order and line, that it returns for the source with a space in the
\* place of every such character.
C15_LexicalErrorsDoNotAbort ==
    [][/\ atBadCharacter =>
            /\ pc' = "scan"
            /\ scanner' = [scanner EXCEPT !.start = scanner.current,
                                          !.current = scanner.current + 1]
            /\ hadError'
            /\ stderr' = Append(stderr,
                                ReportLine(scanner.line, "", "Unexpected character."))
       /\ pc' = "scanned" =>
            outline(scanner'.tokens) =
                outline(scanTokens(NewScanner(blanked(scanner.source)), <<>>)[1].tokens)]_vars

\* C15, its case: scanTokens() has returned for a source that starts with a
\* bad character; the error was reported and the two lexemes after it are
\* tokens
C15_Witness ==
    /\ pc = "scanned"
    /\ Len(scanner.source) = 3
    /\ scanner.source[1] = BadCharacter
    /\ hadError
    /\ stderr = <<ReportLine(1, "", "Unexpected character.")>>
    /\ Len(scanner.tokens) = 3
    /\ scanner.tokens[1].lexeme = <<scanner.source[2]>>
    /\ scanner.tokens[2].lexeme = <<scanner.source[3]>>

\* the kinds of the tokens the Parser was given
tokenTypes == [i \in DOMAIN parser.tokens |-> parser.tokens[i].type]

\* the call of parse() is over
parseOver == pc \in {"parsed", "parseThrown"}

\* C16: the tokens IDENTIFIER '=' NUMBER ';' are parsed as the statement of
\* an Assign node whose name is the identifier and whose value is the parsed
\* right side; for NUMBER '=' NUMBER ';', whose left side is no variable, an
\* error is reported (hadError) and parse() does not throw.
C16_AssignmentIsParsed ==
    /\ (parseOver /\ tokenTypes = <<"IDENTIFIER", "EQUAL", "NUMBER", "SEMICOLON", "EOF">>) =>
          /\ pc = "parsed"
          /\ statements = <<ExpressionStmt(AssignExpr(parser.tokens[1],
                                                      Literal(parser.tokens[3].literal)))>>
    /\ (parseOver /\ tokenTypes = <<"NUMBER", "EQUAL", "NUMBER", "SEMICOLON", "EOF">>) =>
          /\ pc = "parsed"
          /\ hadError

\* the precedence level of a binary operator, the lowest first
level(type) ==
    CASE type \in {"BANG_EQUAL", "EQUAL_EQUAL"} -> 1
      [] type \in {"GREATER", "GREATER_EQUAL", "LESS", "LESS_EQUAL"} -> 2
      [] type \in {"MINUS", "PLUS"} -> 3
      [] type \in {"SLASH", "STAR"} -> 4

\* the level of the operator at the root of an expression; a unary
\* expression is above the binary ones, a primary one above all
rank(expr) ==
    CASE expr.node = "Binary" -> level(expr.operator.type)
      [] expr.node = "Unary" -> 5
      [] OTHER -> 6

\* the kinds of the tokens of an expression, from left to right
RECURSIVE yield(_)
yield(expr) ==
    CASE expr.node = "Binary" ->
            yield(expr.left) \o <<expr.operator.type>> \o yield(expr.right)
      [] expr.node = "Unary" -> <<expr.operator.type>> \o yield(expr.right)
      [] expr.node = "Grouping" ->
            <<"LEFT_PAREN">> \o yield(expr.expression) \o <<"RIGHT_PAREN">>
      [] expr.node = "Literal" -> <<"NUMBER">>
      [] expr.node = "VariableExpr" -> <<"IDENTIFIER">>

\* every binary node has on its left only operators of its level or higher
\* and on its right only operators of a higher level; the operand of a unary
\* node is unary or primary
RECURSIVE leftAssociative(_)
leftAssociative(expr) ==
    CASE expr.node = "Binary" ->
            /\ rank(expr.left) >= rank(expr)
            /\ rank(expr.right) > rank(expr)
            /\ leftAssociative(expr.left)
            /\ leftAssociative(expr.right)
      [] expr.node = "Unary" -> rank(expr.right) >= 5 /\ leftAssociative(expr.right)
      [] expr.node = "Grouping" -> leftAssociative(expr.expression)
      [] OTHER -> TRUE

\* C17: the tree parsed for an expression has the tokens of the expression
\* as its leaves and operators, from left to right; each binary operator has
\* as its left operand a tree of operators of its own level or higher and as
\* its right operand a tree of operators of a higher level, in the order
\* equality < comparison < addition < multiplication < unary: operators of
\* one level group to the left and an operator of a higher level is below
\* its neighbour of a lower level.
C17_BinaryPrecedenceAndAssociativity ==
    pc = "parsed" =>
        /\ Len(statements) = 1
        /\ statements[1].node = "ExpressionStmt"
        /\ yield(statements[1].expression) \o <<"SEMICOLON", "EOF">> = tokenTypes
        /\ leftAssociative(statements[1].expression)

\* C17, its case: 1 - 1 + 1 ; was parsed as (1 - 1) + 1
C17_Witness ==
    /\ pc = "parsed"
    /\ tokenTypes = <<"NUMBER", "MINUS", "NUMBER", "PLUS", "NUMBER", "SEMICOLON", "EOF">>
    /\ statements[1].expression.node = "Binary"
    /\ statements[1].expression.operator.type = "PLUS"
    /\ statements[1].expression.left.node = "Binary"
    /\ statements[1].expression.left.operator.type = "MINUS"
    /\ statements[1].expression.right.node = "Literal"

\* the cursor of a parser is at a token, the last of which is the EOF token
withinTokens(p) ==
    /\ 0 <= p.current
    /\ p.current <= Len(p.tokens) - 1
    /\ p.tokens[Len(p.tokens)].type = "EOF"

\* C18: the cursor never passes the EOF token.  The cursor is moved by
\* advance() alone, one token forward, so in every state inside a step of
\* parse() it lies between its values before and after the step; before,
\* after, and where a ParseError is thrown, it satisfies
\* 0 <= current <= index of the EOF token.  synchronize() reads previous()
\* only after its first advance(), and the cursor is then at least 1, so the
\* token read exists.
C18_CursorNeverPassesEOF ==
    [][/\ withinTokens(parser)
       /\ withinTokens(parser')
       /\ parser.current <= parser'.current
       /\ pc' = "parseThrown" =>
             /\ withinTokens(declaration(parser).p)
             /\ parser.current <= declaration(parser).p.current
             /\ Parser_advance(declaration(parser).p).current >= 1
             /\ previous(Parser_advance(declaration(parser).p)) # Undefined
             /\ previous(parser') # Undefined]_vars

\* C18, its case: a ParseError at the EOF token, the last one; synchronize()
\* has left the cursor on it
C18_Witness ==
    /\ pc = "parseThrown"
    /\ thrown.name = "ParseError"
    /\ thrown.lexeme = <<>>
    /\ Parser_isAtEnd(parser)
    /\ parser.current = Len(parser.tokens) - 1
    /\ parser.current >= 1

\* the step executes `print l op r;`
printingBinary ==
    /\ executing("PrintStmt")
    /\ Head(top.statements).expression.node = "Binary"

binary == Head(top.statements).expression

\* what the left operand gives in the state of the step, and what the right
\* operand gives in the heap the left operand has left
leftResult == evaluate(binary.left, heap, environment)

rightResult == evaluate(binary.right, leftResult.heap, environment)

\* C19: a binary expression evaluates its left operand first, then its right
\* operand in the heap the left operand has left, assignments applied, and
\* only then checks the operands: an error of the left operand is thrown
\* before the right one has changed anything; an error of the right operand
\* is the one thrown, whatever the type of the left value; the operator is
\* applied, and its operand check made, only when both have a value.
C19_BinaryLeftToRight ==
    [][printingBinary =>
          IF ~leftResult.ok
          THEN /\ thrown' = leftResult.error
               /\ heap' = leftResult.heap
               /\ stdout' = stdout
          ELSE IF ~rightResult.ok
          THEN /\ thrown' = rightResult.error
               /\ heap' = rightResult.heap
               /\ stdout' = stdout
          ELSE /\ heap' = rightResult.heap
               /\ thrown' = binaryOp(binary.operator, leftResult.value,
                                     rightResult.value, rightResult.heap).error
               /\ thrown' = NoError =>
                     stdout' = Append(stdout,
                         stringify(binaryOp(binary.operator, leftResult.value,
                                            rightResult.value, rightResult.heap).value))]_vars

\* C19, its case: `print "s" - b;` has thrown the error of b, not the one of
\* the operand check of "s"
C19_Witness ==
    /\ pc = "interpret"
    /\ top.statements # <<>>
    /\ Head(top.statements) =
          PrintStmt(Binary(Literal(StringValue(<<"s">>)),
                           Token("MINUS", <<"-">>, NilValue, 1),
                           VariableExpr(NameToken(<<"b">>))))
    /\ thrown.name = "RuntimeError"
    /\ thrown.message = UndefinedVariable(<<"b">>)

====
